---- MODULE Spec2Model ----
(***************************************************************************)
(* Finance-News-Assistant-Bot: the USD/VND rate cache, the market report,  *)
(* the subscriber registry and the broadcast loop.                         *)
(*                                                                         *)
(* The repository holds two builds of the same bot:                        *)
(*   "mongo"  src/main.go            MongoDB registry, /quote endpoint     *)
(*   "file"   src/unnamed/part_000   users.txt registry, /price endpoint   *)
(* The variable build says which program is running; it never changes.     *)
(* Time is counted in hours.                                               *)
(***************************************************************************)
EXTENDS Integers, Sequences, FiniteSets, TLC

VARIABLES
    build,            \* "mongo" (main.go) or "file" (part_000)
    now,              \* the wall clock, in hours
    cachedUsdVnd,     \* global cachedUsdVnd
    lastCacheUpdate,  \* global lastCacheUpdate
    connected,        \* userCollection != nil (mongo build)
    docs,             \* documents of market_bot.users (mongo build)
    userFile,         \* lines of users.txt (file build)
    pc,               \* per goroutine: position in the code
    loc,              \* per goroutine: local variables
    getLog,           \* history: the last two direct calls of getCachedUsdVnd
    fetchedRates,     \* history: USD/VND prices > 0 the provider has returned
    registered,       \* history: ids saveUser has been called with (returned)
    storeFailed       \* history: a call to the registry's store has failed

vars ==
    <<build, now, cachedUsdVnd, lastCacheUpdate, connected, docs, userFile,
      pc, loc, getLog, fetchedRates, registered, storeFailed>>

-----------------------------------------------------------------------------
(* Bounds of the model *)

MaxTime ==
    8

NumProcs ==
    2

MaxId ==
    2

MaxFeedLen ==
    2

MaxLines ==
    4

MaxNewsLen ==
    9

Procs ==
    1..NumProcs

Ids ==
    0..MaxId

Builds ==
    {"mongo", "file"}

-----------------------------------------------------------------------------
(* Program constants *)

\* cacheDuration = 6 * time.Hour
cacheDuration ==
    6

\* the zero time.Time of a never-assigned lastCacheUpdate: hours before the
\* clock's origin (year 1), far more than cacheDuration in the past
ZeroTime ==
    -17000000

\* return 25000, fmt.Errorf("API_ERROR")
DefaultRate ==
    25000

-----------------------------------------------------------------------------
(* The quote provider (TwelveData): what one HTTP call can answer *)

PriceStrings ==
    {"abc", "-1", "0", "1", "2"}

TransportError ==
    [transport |-> TRUE, code |-> 0, message |-> "", price |-> ""]

RateLimited ==
    [transport |-> FALSE, code |-> 429, message |-> "run out of API credits", price |-> ""]

ProviderError ==
    [transport |-> FALSE, code |-> 400, message |-> "symbol not found", price |-> ""]

Quote(s) ==
    [transport |-> FALSE, code |-> 0, message |-> "", price |-> s]

Responses ==
    {TransportError, RateLimited, ProviderError} \cup {Quote(s) : s \in PriceStrings}

\* strconv.ParseFloat with its error dropped: 0 for what does not parse
ParseFloat(s) ==
    CASE s = "-1" -> -1
      [] s = "0" -> 0
      [] s = "1" -> 1
      [] s = "2" -> 2
      [] OTHER -> 0

\* strings.Contains(strings.ToLower(result.Message), "credits")
MentionsCredits(m) ==
    m = "run out of API credits"

\* main.go getMarketData: the Price of the MarketData it returns
getMarketData(resp) ==
    IF resp.transport THEN 0
    ELSE IF resp.message /= "" THEN 0
    ELSE ParseFloat(resp.price)

\* part_000 getPrice: (price, err)
getPrice(resp) ==
    IF resp.transport THEN [p |-> 0, err |-> TRUE]
    ELSE IF resp.code = 429 \/ MentionsCredits(resp.message) THEN [p |-> 0, err |-> TRUE]
    ELSE [p |-> ParseFloat(resp.price), err |-> FALSE]

\* the provider answered with a usable price: the fetch succeeded
GoodQuote(resp) ==
    /\ ~resp.transport
    /\ resp.code = 0
    /\ resp.message = ""
    /\ ParseFloat(resp.price) > 0

-----------------------------------------------------------------------------
(* Local variables of a goroutine *)

NoReport ==
    [available |-> FALSE, usdToVnd |-> 0, gold |-> 0, eur |-> 0, btc |-> 0,
     derived |-> <<>>, headlines |-> <<>>,
     anchor |-> 0, newsFetches |-> 0, feedLen |-> 0, translations |-> 0]

IdleLoc ==
    [op |-> "idle",
     \* getCachedUsdVnd
     t |-> 0, preValue |-> 0, preLast |-> 0, fetches |-> 0, good |-> FALSE, rate |-> 0,
     overwritten |-> 0, stampSeen |-> 0,
     \* getMarketUpdate
     gold |-> 0, eur |-> 0, btc |-> 0, usdToVnd |-> 0, feedLen |-> 0, idx |-> 0,
     headlines |-> <<>>, translations |-> 0,
     \* saveUser, loadUsers, the broadcast loop
     id |-> 0, users |-> {}, remaining |-> {}, attempts |-> <<>>, msg |-> NoReport,
     trigger |-> "", logged |-> <<>>, pending |-> {},
     \* Handler: the request, the chat it came from, the chats written to, the
     \* placeholder message, the reports produced, the status of the response
     req |-> "", chat |-> 0, sent |-> {}, tmpMsg |-> TRUE, produced |-> 0, status |-> 0]

\* the locals of getCachedUsdVnd go out of scope
ClearGet(l) ==
    [l EXCEPT !.t = 0, !.preValue = 0, !.preLast = 0, !.fetches = 0, !.good = FALSE,
              !.rate = 0, !.overwritten = 0, !.stampSeen = 0]

Push2(log, e) ==
    IF Len(log) < 2 THEN Append(log, e) ELSE <<log[2], e>>

-----------------------------------------------------------------------------
(* getCachedUsdVnd *)

CacheHitFlipped(value, last, t) ==
    t - last > cacheDuration /\ value > 0

CacheHitAnyValue(value, last, t) ==
    t - last < cacheDuration

CacheHitNoExpiry(value, last, t) ==
    value > 0

\* time.Since(lastCacheUpdate) < cacheDuration && cachedUsdVnd > 0
CacheHit(value, last, t) ==
    t - last < cacheDuration /\ value > 0

\* the call returns (ret, err) to its caller
GetReturn(p, ret, err, fetches, good, postValue, postLast) ==
    IF loc[p].op = "get"
    THEN /\ getLog' = Push2(getLog,
                [t |-> loc[p].t, preValue |-> loc[p].preValue, preLast |-> loc[p].preLast,
                 fetches |-> fetches, good |-> good, ret |-> ret, err |-> err,
                 postValue |-> postValue, postLast |-> postLast])
         /\ pc' = [pc EXCEPT ![p] = "idle"]
         /\ loc' = [loc EXCEPT ![p] = IdleLoc]
    ELSE /\ UNCHANGED getLog
         /\ pc' = [pc EXCEPT ![p] = "mu_anchor"]
         /\ loc' = [loc EXCEPT ![p] = [ClearGet(loc[p]) EXCEPT !.usdToVnd = ret]]

\* a caller enters getCachedUsdVnd
CallGet(p) ==
    /\ pc[p] = "idle"
    /\ pc' = [pc EXCEPT ![p] = "get_check"]
    /\ loc' = [loc EXCEPT ![p].op = "get"]
    /\ UNCHANGED <<build, now, cachedUsdVnd, lastCacheUpdate, connected, docs, userFile,
                   getLog, fetchedRates, registered, storeFailed>>

\* the if of getCachedUsdVnd
GetCheck(p) ==
    /\ pc[p] = "get_check"
    /\ IF CacheHit(cachedUsdVnd, lastCacheUpdate, now)
       THEN IF loc[p].op = "get"
            THEN /\ getLog' = Push2(getLog,
                        [t |-> now, preValue |-> cachedUsdVnd,
                         preLast |-> lastCacheUpdate,
                         fetches |-> 0, good |-> FALSE, ret |-> cachedUsdVnd,
                         err |-> FALSE,
                         postValue |-> cachedUsdVnd, postLast |-> lastCacheUpdate])
                 /\ pc' = [pc EXCEPT ![p] = "idle"]
                 /\ loc' = [loc EXCEPT ![p] = IdleLoc]
            ELSE /\ UNCHANGED getLog
                 /\ pc' = [pc EXCEPT ![p] = "mu_anchor"]
                 /\ loc' = [loc EXCEPT ![p].usdToVnd = cachedUsdVnd]
       ELSE /\ pc' = [pc EXCEPT ![p] = "get_fetch"]
            /\ loc' = [loc EXCEPT ![p].t = now, ![p].preValue = cachedUsdVnd,
                                  ![p].preLast = lastCacheUpdate]
            /\ UNCHANGED getLog
    /\ UNCHANGED <<build, now, cachedUsdVnd, lastCacheUpdate, connected, docs, userFile,
                   fetchedRates, registered, storeFailed>>

\* the upstream call of getCachedUsdVnd and the test of its result
GetFetch(p, resp) ==
    /\ pc[p] = "get_fetch"
    /\ fetchedRates' = IF GoodQuote(resp)
                       THEN fetchedRates \cup {ParseFloat(resp.price)}
                       ELSE fetchedRates
    /\ IF build = "mongo"
       THEN IF getMarketData(resp) = 0
            THEN GetReturn(p, DefaultRate, TRUE, loc[p].fetches + 1, GoodQuote(resp), cachedUsdVnd,
                           lastCacheUpdate)
            ELSE /\ pc' = [pc EXCEPT ![p] = "get_store"]
                 /\ loc' = [loc EXCEPT ![p].fetches = @ + 1, ![p].good = GoodQuote(resp),
                                       ![p].rate = getMarketData(resp)]
                 /\ UNCHANGED getLog
       ELSE IF getPrice(resp).err
            THEN GetReturn(p, 0, TRUE, loc[p].fetches + 1, GoodQuote(resp), cachedUsdVnd,
                           lastCacheUpdate)
            ELSE /\ pc' = [pc EXCEPT ![p] = "get_store"]
                 /\ loc' = [loc EXCEPT ![p].fetches = @ + 1, ![p].good = GoodQuote(resp),
                                       ![p].rate = getPrice(resp).p]
                 /\ UNCHANGED getLog
    /\ UNCHANGED <<build, now, cachedUsdVnd, lastCacheUpdate, connected, docs, userFile,
                   registered, storeFailed>>

\* cachedUsdVnd = data.Price (overwritten and stampSeen remember the value
\* this assignment replaced and the timestamp it left in place)
GetStoreValue(p) ==
    /\ pc[p] = "get_store"
    /\ cachedUsdVnd' = loc[p].rate
    /\ loc' = [loc EXCEPT ![p].overwritten = cachedUsdVnd, ![p].stampSeen = lastCacheUpdate]
    /\ pc' = [pc EXCEPT ![p] = "get_stamp"]
    /\ UNCHANGED <<build, now, lastCacheUpdate, connected, docs, userFile,
                   getLog, fetchedRates, registered, storeFailed>>

\* lastCacheUpdate = time.Now(); return
GetStoreTime(p) ==
    /\ pc[p] = "get_stamp"
    /\ lastCacheUpdate' = now
    /\ GetReturn(p, IF build = "mongo" THEN cachedUsdVnd ELSE loc[p].rate, FALSE,
                 loc[p].fetches, loc[p].good, cachedUsdVnd, now)
    /\ UNCHANGED <<build, now, cachedUsdVnd, connected, docs, userFile,
                   fetchedRates, registered, storeFailed>>

-----------------------------------------------------------------------------
(* getMarketUpdate *)

\* if i >= 8 { break } (main.go), if i >= 7 { break } (part_000)
NewsCapMongo ==
    8

NewsCapFile ==
    7

NewsCapUnbounded(b) ==
    MaxNewsLen + 1

NewsCap(b) ==
    IF b = "mongo" THEN NewsCapMongo ELSE NewsCapFile

\* what the translation endpoint can do with one headline
TranslateOutcomes ==
    {"error", "html", "ok"}

\* translateToVietnamese: the text put in the report for headline item
translateToVietnamese(b, item, tr) ==
    IF tr = "error" THEN [item |-> item, text |-> "original"]
    ELSE IF b = "file" /\ tr = "html" THEN [item |-> item, text |-> "original"]
    ELSE IF tr = "html" THEN [item |-> item, text |-> "html"]
    ELSE [item |-> item, text |-> "translated"]

\* the price one quote call hands to getMarketUpdate: gold.Price, pGold
QuotePrice(b, resp) ==
    IF b = "mongo" THEN getMarketData(resp) ELSE getPrice(resp).p

AnchorAbsentOrNonPositive(goldPrice) ==
    goldPrice <= 0

\* if gold.Price == 0 / if pGold == 0
AnchorMissing(goldPrice) ==
    goldPrice = 0

\* the values the final Sprintf renders
Render(b, l, headlines) ==
    [available |-> TRUE, usdToVnd |-> l.usdToVnd,
     gold |-> l.gold, eur |-> l.eur, btc |-> l.btc,
     derived |-> IF b = "file"
                 THEN <<l.gold * l.usdToVnd, l.eur * l.usdToVnd, l.btc * l.usdToVnd>>
                 ELSE <<>>,
     headlines |-> headlines,
     anchor |-> l.gold, newsFetches |-> 1, feedLen |-> l.feedLen,
     translations |-> Len(headlines)]

\* the outage notice
Unavailable(l) ==
    [NoReport EXCEPT !.anchor = l.gold]

\* the locals of getMarketUpdate go out of scope
ClearUpdate(l) ==
    [l EXCEPT !.gold = 0, !.eur = 0, !.btc = 0, !.usdToVnd = 0, !.feedLen = 0, !.idx = 0,
              !.headlines = <<>>, !.translations = 0]

MuReturnFailsWhenDegraded(p, rep) ==
    /\ loc' = [loc EXCEPT ![p] = [ClearUpdate(loc[p]) EXCEPT !.msg = rep]]
    /\ pc' = [pc EXCEPT ![p] = IF ~rep.available THEN "failed"
                               ELSE IF loc[p].op = "broadcast" THEN "bc_send"
                               ELSE "up_reply"]

\* getMarketUpdate returns rep to the handler that called it, which holds it
\* in msg
MuReturn(p, rep) ==
    /\ loc' = [loc EXCEPT ![p] = [ClearUpdate(loc[p]) EXCEPT !.msg = rep,
                                                             !.produced = @ + 1]]
    /\ pc' = [pc EXCEPT ![p] = IF loc[p].op = "broadcast" THEN "bc_send" ELSE "up_reply"]

\* /update: the handler calls getMarketUpdate (main.go first sends a
\* placeholder message, whose result it does not look at)
CallUpdate(p) ==
    /\ pc[p] = "idle"
    /\ pc' = [pc EXCEPT ![p] = "mu_gold"]
    /\ loc' = [loc EXCEPT ![p].op = "update"]
    /\ UNCHANGED <<build, now, cachedUsdVnd, lastCacheUpdate, connected, docs, userFile,
                   getLog, fetchedRates, registered, storeFailed>>

\* gold := getMarketData("XAU/USD")
MuGold(p, resp) ==
    /\ pc[p] = "mu_gold"
    /\ pc' = [pc EXCEPT ![p] = "mu_eur"]
    /\ loc' = [loc EXCEPT ![p].gold = QuotePrice(build, resp)]
    /\ UNCHANGED <<build, now, cachedUsdVnd, lastCacheUpdate, connected, docs, userFile,
                   getLog, fetchedRates, registered, storeFailed>>

\* eur := getMarketData("EUR/USD")
MuEur(p, resp) ==
    /\ pc[p] = "mu_eur"
    /\ pc' = [pc EXCEPT ![p] = "mu_btc"]
    /\ loc' = [loc EXCEPT ![p].eur = QuotePrice(build, resp)]
    /\ UNCHANGED <<build, now, cachedUsdVnd, lastCacheUpdate, connected, docs, userFile,
                   getLog, fetchedRates, registered, storeFailed>>

\* btc := getMarketData("BTC/USD"); then usdToVnd, _ := getCachedUsdVnd(apiKey)
MuBtc(p, resp) ==
    /\ pc[p] = "mu_btc"
    /\ pc' = [pc EXCEPT ![p] = "get_check"]
    /\ loc' = [loc EXCEPT ![p].btc = QuotePrice(build, resp)]
    /\ UNCHANGED <<build, now, cachedUsdVnd, lastCacheUpdate, connected, docs, userFile,
                   getLog, fetchedRates, registered, storeFailed>>

\* if gold.Price == 0 { return the outage notice }
MuAnchor(p) ==
    /\ pc[p] = "mu_anchor"
    /\ IF AnchorMissing(loc[p].gold)
       THEN MuReturn(p, Unavailable(loc[p]))
       ELSE /\ pc' = [pc EXCEPT ![p] = "mu_news"]
            /\ UNCHANGED loc
    /\ UNCHANGED <<build, now, cachedUsdVnd, lastCacheUpdate, connected, docs, userFile,
                   getLog, fetchedRates, registered, storeFailed>>

\* feed, _ := fp.ParseURL(...): feedLen < 0 is a nil feed, else len(feed.Items)
MuNews(p, feedLen) ==
    /\ pc[p] = "mu_news"
    /\ IF feedLen <= 0
       THEN MuReturn(p, Render(build, [loc[p] EXCEPT !.feedLen = feedLen], <<>>))
       ELSE /\ pc' = [pc EXCEPT ![p] = "mu_translate"]
            /\ loc' = [loc EXCEPT ![p].feedLen = feedLen, ![p].idx = 1]
    /\ UNCHANGED <<build, now, cachedUsdVnd, lastCacheUpdate, connected, docs, userFile,
                   getLog, fetchedRates, registered, storeFailed>>

\* one round of the loop over feed.Items: translate the title, append the line
MuTranslate(p, tr) ==
    /\ pc[p] = "mu_translate"
    /\ LET hs == Append(loc[p].headlines, translateToVietnamese(build, loc[p].idx, tr))
       IN  IF loc[p].idx + 1 > loc[p].feedLen \/ loc[p].idx + 1 > NewsCap(build)
           THEN MuReturn(p, Render(build, loc[p], hs))
           ELSE /\ loc' = [loc EXCEPT ![p].headlines = hs, ![p].idx = @ + 1]
                /\ UNCHANGED pc
    /\ UNCHANGED <<build, now, cachedUsdVnd, lastCacheUpdate, connected, docs, userFile,
                   getLog, fetchedRates, registered, storeFailed>>

\* the handler hands the report to Telegram (c.Send / b.Edit); the result of the
\* call changes nothing. In Handler the /update case edits tmpMsg, which is nil
\* when the placeholder could not be sent, and then returns 200 "Processed".
UpdateReply(p) ==
    /\ pc[p] = "up_reply"
    /\ IF loc[p].req = ""
       THEN /\ pc' = [pc EXCEPT ![p] = "idle"]
            /\ loc' = [loc EXCEPT ![p] = IdleLoc]
       ELSE IF ~loc[p].tmpMsg
       THEN /\ pc' = [pc EXCEPT ![p] = "h_panic"]
            /\ UNCHANGED loc
       ELSE /\ pc' = [pc EXCEPT ![p] = "h_done"]
            /\ loc' = [loc EXCEPT ![p].sent = @ \cup {loc[p].chat}, ![p].status = 200]
    /\ UNCHANGED <<build, now, cachedUsdVnd, lastCacheUpdate, connected, docs, userFile,
                   getLog, fetchedRates, registered, storeFailed>>

-----------------------------------------------------------------------------
(* The subscriber registry *)

RECURSIVE FormatInt(_)
\* fmt.Fprintf(file, "%d\n", id): the decimal digits of id >= 0, one line
FormatInt(n) ==
    IF n < 10 THEN <<n>> ELSE Append(FormatInt(n \div 10), n % 10)

RECURSIVE ParseInt(_)
\* strconv.ParseInt(scanner.Text(), 10, 64) with its error dropped
ParseInt(line) ==
    IF line = <<>> THEN 0
    ELSE ParseInt(SubSeq(line, 1, Len(line) - 1)) * 10 + line[Len(line)]

\* part_000 loadUsers: the ids of the lines of users.txt, without the id 0
loadUsersFile(file, openOk) ==
    IF ~openOk THEN {}
    ELSE {ParseInt(file[i]) : i \in DOMAIN file} \ {0}

\* main.go loadUsers: the chat_id of every document, or nothing on an error
loadUsersMongo(conn, d, findOk) ==
    IF ~conn THEN {}
    ELSE IF ~findOk THEN {}
    ELSE {x.chat_id : x \in d}

loadUsers(ok) ==
    IF build = "mongo" THEN loadUsersMongo(connected, docs, ok)
    ELSE loadUsersFile(userFile, ok)

\* a read of the store that does not give its content
ReadFails(ok) ==
    IF build = "mongo" THEN ~connected \/ ~ok ELSE ~ok /\ userFile /= <<>>

\* UpdateOne(filter chat_id = id, $set {chat_id, updated_at}, upsert)
Upsert(d, id, t) ==
    IF \E x \in d : x.chat_id = id
    THEN LET old == CHOOSE x \in d : x.chat_id = id
         IN  (d \ {old}) \cup {[chat_id |-> id, updated_at |-> t]}
    ELSE d \cup {[chat_id |-> id, updated_at |-> t]}

\* initDatabase: on a failed connect userCollection keeps its value
initDatabase(ok) ==
    /\ build = "mongo"
    /\ \A p \in Procs : pc[p] = "idle"
    /\ connected' = (connected \/ ok)
    /\ UNCHANGED <<build, now, cachedUsdVnd, lastCacheUpdate, docs, userFile,
                   pc, loc, getLog, fetchedRates, registered, storeFailed>>

\* /start: the handler calls saveUser(id)
CallStart(p, id) ==
    /\ pc[p] = "idle"
    /\ build = "file" => Len(userFile) < MaxLines
    /\ pc' = [pc EXCEPT ![p] = IF build = "mongo" THEN "su_upsert" ELSE "su_load"]
    /\ loc' = [loc EXCEPT ![p].op = "start", ![p].id = id]
    /\ UNCHANGED <<build, now, cachedUsdVnd, lastCacheUpdate, connected, docs, userFile,
                   getLog, fetchedRates, registered, storeFailed>>

\* main.go saveUser: the nil check and the upsert
SuUpsert(p, ok) ==
    /\ pc[p] = "su_upsert"
    /\ docs' = IF connected /\ ok THEN Upsert(docs, loc[p].id, now) ELSE docs
    /\ storeFailed' = (storeFailed \/ ~connected \/ ~ok)
    /\ registered' = registered \cup {loc[p].id}
    /\ pc' = [pc EXCEPT ![p] = "st_reply"]
    /\ UNCHANGED <<build, now, cachedUsdVnd, lastCacheUpdate, connected, userFile, loc,
                   getLog, fetchedRates>>

\* part_000 saveUser: users := loadUsers()
SuLoad(p, ok) ==
    /\ pc[p] = "su_load"
    /\ loc' = [loc EXCEPT ![p].users = loadUsers(ok)]
    /\ storeFailed' = (storeFailed \/ ReadFails(ok))
    /\ pc' = [pc EXCEPT ![p] = "su_append"]
    /\ UNCHANGED <<build, now, cachedUsdVnd, lastCacheUpdate, connected, docs, userFile,
                   getLog, fetchedRates, registered>>

\* part_000 saveUser: if the id is not among users, open users.txt and append
SuAppend(p, ok) ==
    /\ pc[p] = "su_append"
    /\ IF loc[p].id \in loc[p].users
       THEN UNCHANGED <<userFile, storeFailed>>
       ELSE /\ userFile' = IF ok THEN Append(userFile, FormatInt(loc[p].id)) ELSE userFile
            /\ storeFailed' = (storeFailed \/ ~ok)
    /\ registered' = registered \cup {loc[p].id}
    /\ loc' = [loc EXCEPT ![p].users = {}]
    /\ pc' = [pc EXCEPT ![p] = "st_reply"]
    /\ UNCHANGED <<build, now, cachedUsdVnd, lastCacheUpdate, connected, docs,
                   getLog, fetchedRates>>

\* /start: the welcome message; the result of the send changes nothing. In
\* Handler the response 200 "Processed" follows.
StartReply(p) ==
    /\ pc[p] = "st_reply"
    /\ IF loc[p].req = ""
       THEN /\ pc' = [pc EXCEPT ![p] = "idle"]
            /\ loc' = [loc EXCEPT ![p] = IdleLoc]
       ELSE /\ pc' = [pc EXCEPT ![p] = "h_done"]
            /\ loc' = [loc EXCEPT ![p].sent = @ \cup {loc[p].chat}, ![p].status = 200]
    /\ UNCHANGED <<build, now, cachedUsdVnd, lastCacheUpdate, connected, docs, userFile,
                   getLog, fetchedRates, registered, storeFailed>>

\* a caller asks for loadUsers() and holds the result
CallAll(p, ok) ==
    /\ pc[p] = "idle"
    /\ pc' = [pc EXCEPT ![p] = "all_done"]
    /\ loc' = [loc EXCEPT ![p].op = "all", ![p].users = loadUsers(ok)]
    /\ storeFailed' = (storeFailed \/ ReadFails(ok))
    /\ UNCHANGED <<build, now, cachedUsdVnd, lastCacheUpdate, connected, docs, userFile,
                   getLog, fetchedRates, registered>>

AllReturn(p) ==
    /\ pc[p] = "all_done"
    /\ pc' = [pc EXCEPT ![p] = "idle"]
    /\ loc' = [loc EXCEPT ![p] = IdleLoc]
    /\ UNCHANGED <<build, now, cachedUsdVnd, lastCacheUpdate, connected, docs, userFile,
                   getLog, fetchedRates, registered, storeFailed>>

-----------------------------------------------------------------------------
(* The broadcast: Handler with an empty body (main.go), the cron jobs (part_000) *)

RangeNextAbortOnFailure(remaining, id, ok) ==
    IF ok THEN remaining \ {id} ELSE {}

RangeNextRetryOnFailure(remaining, id, ok) ==
    IF ok THEN remaining \ {id} ELSE remaining

RangeNextLiveRegistry(remaining, id, ok) ==
    (remaining \cup loadUsers(TRUE)) \ {id}

\* for id := range users { b.Send(...) }: the keys still to visit after the
\* round for id, whatever b.Send returned
RangeNext(remaining, id, ok) ==
    remaining \ {id}

PendingAfterGoSend(pending, id) ==
    pending \cup {id}

\* b.Send is a call that returns when Telegram has answered or the request has
\* failed: the sends still under way after the call for id
PendingAfterSend(pending, id) ==
    pending \ {id}

\* what starts a broadcast: a request with an empty body (main.go), the cron
\* job of every minute or the one of 08:00 (part_000)
Triggers(b) ==
    IF b = "mongo" THEN {"request"} ELSE {"minute", "daily"}

\* what the loop keeps of one b.Send: main.go and the 08:00 job drop its
\* result, the job of every minute logs the error of a failed send
LogSend(logged, trigger, id, ok) ==
    IF trigger = "minute" /\ ~ok THEN Append(logged, [id |-> id, ok |-> FALSE])
    ELSE logged

\* the trigger fires
CallBroadcast(p, trigger) ==
    /\ pc[p] = "idle"
    /\ trigger \in Triggers(build)
    /\ pc' = [pc EXCEPT ![p] = "bc_load"]
    /\ loc' = [loc EXCEPT ![p].op = "broadcast", ![p].trigger = trigger]
    /\ UNCHANGED <<build, now, cachedUsdVnd, lastCacheUpdate, connected, docs, userFile,
                   getLog, fetchedRates, registered, storeFailed>>

\* part_000: the scheduler starts a job, in a goroutine of its own
CronFire(p, trigger) ==
    /\ build = "file"
    /\ CallBroadcast(p, trigger)

\* users := loadUsers(); part_000 returns at once when there are none
BcLoad(p, ok) ==
    /\ pc[p] = "bc_load"
    /\ LET users == loadUsers(ok)
       IN  /\ loc' = [loc EXCEPT ![p].users = users, ![p].remaining = users]
           /\ pc' = [pc EXCEPT ![p] = IF build = "file" /\ users = {}
                                      THEN "bc_done" ELSE "mu_gold"]
    /\ storeFailed' = (storeFailed \/ ReadFails(ok))
    /\ UNCHANGED <<build, now, cachedUsdVnd, lastCacheUpdate, connected, docs, userFile,
                   getLog, fetchedRates, registered>>

\* one round of the loop: b.Send to id, which succeeds or fails
BcSend(p, id, ok) ==
    /\ pc[p] = "bc_send"
    /\ id \in loc[p].remaining
    /\ loc' = [loc EXCEPT ![p].attempts = Append(@, [id |-> id, ok |-> ok]),
                          ![p].remaining = RangeNext(@, id, ok),
                          ![p].logged = LogSend(@, loc[p].trigger, id, ok),
                          ![p].pending = PendingAfterSend(@, id)]
    /\ UNCHANGED <<build, now, cachedUsdVnd, lastCacheUpdate, connected, docs, userFile,
                   pc, getLog, fetchedRates, registered, storeFailed>>

BcEndDropsFailed(p) ==
    /\ pc[p] = "bc_send"
    /\ loc[p].remaining = {}
    /\ pc' = [pc EXCEPT ![p] = "bc_done"]
    /\ LET failed == {loc[p].attempts[i].id :
                          i \in {j \in DOMAIN loc[p].attempts : ~loc[p].attempts[j].ok}}
       IN  /\ docs' = {x \in docs : x.chat_id \notin failed}
           /\ userFile' = SelectSeq(userFile, LAMBDA line : ParseInt(line) \notin failed)
    /\ UNCHANGED <<build, now, cachedUsdVnd, lastCacheUpdate, connected,
                   loc, getLog, fetchedRates, registered, storeFailed>>

\* the loop is over
BcEnd(p) ==
    /\ pc[p] = "bc_send"
    /\ loc[p].remaining = {}
    /\ pc' = [pc EXCEPT ![p] = "bc_done"]
    /\ UNCHANGED <<build, now, cachedUsdVnd, lastCacheUpdate, connected, docs, userFile,
                   loc, getLog, fetchedRates, registered, storeFailed>>

\* return StatusCode 200, "Broadcast complete"; the cron function returns
BcReturn(p) ==
    /\ pc[p] = "bc_done"
    /\ pc' = [pc EXCEPT ![p] = "idle"]
    /\ loc' = [loc EXCEPT ![p] = IdleLoc]
    /\ UNCHANGED <<build, now, cachedUsdVnd, lastCacheUpdate, connected, docs, userFile,
                   getLog, fetchedRates, registered, storeFailed>>

-----------------------------------------------------------------------------
(* Handler: one invocation of the Lambda function (main.go) *)

\* the request bodies: none, not JSON, a callback query with and without its
\* message, the messages /start, /update and any other text, an update that is
\* neither a callback nor a message
Bodies ==
    {"empty", "malformed", "callback", "callback_nomsg", "start", "update", "text", "other"}

IsTriggerOrText(body) ==
    body \in {"empty", "text"}

\* if request.Body == "": the request is a broadcast trigger
IsTrigger(body) ==
    body = "empty"

\* the Lambda runtime calls Handler with a request
HandlerCall(p, body, chat) ==
    /\ build = "mongo"
    /\ pc[p] = "idle"
    /\ pc' = [pc EXCEPT ![p] = "h_init"]
    /\ loc' = [loc EXCEPT ![p].req = body, ![p].chat = chat]
    /\ UNCHANGED <<build, now, cachedUsdVnd, lastCacheUpdate, connected, docs, userFile,
                   getLog, fetchedRates, registered, storeFailed>>

\* initDatabase(), then tele.NewBot: 500 when it fails
HandlerInit(p, dbOk, botOk) ==
    /\ pc[p] = "h_init"
    /\ connected' = (connected \/ dbOk)
    /\ IF botOk
       THEN /\ pc' = [pc EXCEPT ![p] = "h_route"]
            /\ UNCHANGED loc
       ELSE /\ pc' = [pc EXCEPT ![p] = "h_done"]
            /\ loc' = [loc EXCEPT ![p].status = 500]
    /\ UNCHANGED <<build, now, cachedUsdVnd, lastCacheUpdate, docs, userFile,
                   getLog, fetchedRates, registered, storeFailed>>

\* the tests of the body, down to the first call each case makes; ok is the
\* result of the first b.Send of the case
HandlerRoute(p, ok) ==
    /\ pc[p] = "h_route"
    /\ LET l == loc[p]
       IN  CASE IsTrigger(l.req) ->
                  /\ pc' = [pc EXCEPT ![p] = "bc_load"]
                  /\ loc' = [loc EXCEPT ![p].op = "broadcast", ![p].trigger = "request"]
             [] l.req = "malformed" ->
                  /\ pc' = [pc EXCEPT ![p] = "h_done"]
                  /\ loc' = [loc EXCEPT ![p].status = 200]
             [] l.req = "callback_nomsg" ->
                  /\ pc' = [pc EXCEPT ![p] = "h_panic"]
                  /\ UNCHANGED loc
             [] l.req = "callback" ->
                  /\ pc' = [pc EXCEPT ![p] = "mu_gold"]
                  /\ loc' = [loc EXCEPT ![p].op = "update", ![p].sent = @ \cup {l.chat}]
             [] l.req = "start" ->
                  /\ pc' = [pc EXCEPT ![p] = "su_upsert"]
                  /\ loc' = [loc EXCEPT ![p].op = "start", ![p].id = l.chat]
             [] l.req = "update" ->
                  /\ pc' = [pc EXCEPT ![p] = "mu_gold"]
                  /\ loc' = [loc EXCEPT ![p].op = "update", ![p].sent = @ \cup {l.chat},
                                        ![p].tmpMsg = ok]
             [] l.req = "text" ->
                  /\ pc' = [pc EXCEPT ![p] = "h_done"]
                  /\ loc' = [loc EXCEPT ![p].sent = @ \cup {l.chat}, ![p].status = 200]
             [] OTHER ->
                  /\ pc' = [pc EXCEPT ![p] = "h_done"]
                  /\ loc' = [loc EXCEPT ![p].status = 200]
    /\ UNCHANGED <<build, now, cachedUsdVnd, lastCacheUpdate, connected, docs, userFile,
                   getLog, fetchedRates, registered, storeFailed>>

\* Handler returns its response
HandlerReturn(p) ==
    /\ pc[p] = "h_done"
    /\ pc' = [pc EXCEPT ![p] = "idle"]
    /\ loc' = [loc EXCEPT ![p] = IdleLoc]
    /\ UNCHANGED <<build, now, cachedUsdVnd, lastCacheUpdate, connected, docs, userFile,
                   getLog, fetchedRates, registered, storeFailed>>

\* a nil pointer was dereferenced: the invocation ends without a response and
\* the process with its globals is gone; the next request finds a new one
HandlerCrash(p) ==
    /\ pc[p] = "h_panic"
    /\ pc' = [pc EXCEPT ![p] = "idle"]
    /\ loc' = [loc EXCEPT ![p] = IdleLoc]
    /\ cachedUsdVnd' = 0
    /\ lastCacheUpdate' = ZeroTime
    /\ connected' = FALSE
    /\ UNCHANGED <<build, now, docs, userFile, getLog, fetchedRates, registered,
                   storeFailed>>

\* the status of the response Handler is about to return, 0 when there is none
ResponseStatus(p) ==
    CASE pc[p] = "bc_done" -> 200
      [] pc[p] = "h_done" -> loc[p].status
      [] OTHER -> 0

-----------------------------------------------------------------------------
(* External calls that never answer *)

\* the external call a goroutine at position at is making, "" when it makes none
CallKind(at) ==
    CASE at \in {"mu_gold", "mu_eur", "mu_btc", "get_fetch"} -> "quote"
      [] at = "mu_news" -> "news"
      [] at = "mu_translate" -> "translate"
      [] OTHER -> ""

\* the call is made with a deadline: main.go builds its quote and translation
\* clients with a Timeout, part_000 calls http.Get; both hand the news parser
\* neither a client nor a context
HasTimeout(b, kind) ==
    CASE kind = "quote" -> b = "mongo"
      [] kind = "translate" -> b = "mongo"
      [] kind = "news" -> FALSE
      [] OTHER -> TRUE

\* the server of the call goroutine p is making never answers: with a deadline
\* the call returns an error (a step of getMarketUpdate), without one the
\* goroutine waits for ever
Hang(p) ==
    /\ CallKind(pc[p]) /= ""
    /\ ~HasTimeout(build, CallKind(pc[p]))
    /\ pc' = [pc EXCEPT ![p] = "blocked"]
    /\ UNCHANGED <<build, now, cachedUsdVnd, lastCacheUpdate, connected, docs, userFile,
                   loc, getLog, fetchedRates, registered, storeFailed>>

-----------------------------------------------------------------------------
(* The clock *)

Tick ==
    /\ now < MaxTime
    /\ now' = now + 1
    /\ UNCHANGED <<build, cachedUsdVnd, lastCacheUpdate, connected, docs, userFile,
                   pc, loc, getLog, fetchedRates, registered, storeFailed>>

\* the time of one cacheDuration passes
Expire ==
    /\ now + cacheDuration <= MaxTime
    /\ now' = now + cacheDuration
    /\ UNCHANGED <<build, cachedUsdVnd, lastCacheUpdate, connected, docs, userFile,
                   pc, loc, getLog, fetchedRates, registered, storeFailed>>

-----------------------------------------------------------------------------
(* Specifications *)

Init ==
    /\ build \in Builds
    /\ now = 0
    /\ cachedUsdVnd = 0
    /\ lastCacheUpdate = ZeroTime
    /\ connected = FALSE
    /\ docs = {}
    /\ userFile = <<>>
    /\ pc = [p \in Procs |-> "idle"]
    /\ loc = [p \in Procs |-> IdleLoc]
    /\ getLog = <<>>
    /\ fetchedRates = {}
    /\ registered = {}
    /\ storeFailed = FALSE

\* one goroutine calling getCachedUsdVnd again and again while time passes
NextCache ==
    \/ Tick
    \/ CallGet(1)
    \/ GetCheck(1)
    \/ \E resp \in Responses : GetFetch(1, resp)
    \/ GetStoreValue(1)
    \/ GetStoreTime(1)

SpecCache ==
    Init /\ [][NextCache]_vars

\* the steps of getCachedUsdVnd, whoever called it
GetSteps(p) ==
    \/ GetCheck(p)
    \/ \E resp \in Responses : GetFetch(p, resp)
    \/ GetStoreValue(p)
    \/ GetStoreTime(p)

\* the steps of getMarketUpdate
UpdateSteps(p) ==
    \/ \E resp \in Responses : MuGold(p, resp)
    \/ \E resp \in Responses : MuEur(p, resp)
    \/ \E resp \in Responses : MuBtc(p, resp)
    \/ GetSteps(p)
    \/ MuAnchor(p)
    \/ \E feedLen \in -1..MaxFeedLen : MuNews(p, feedLen)
    \/ \E tr \in TranslateOutcomes : MuTranslate(p, tr)

\* one goroutine serving /update again and again; between two steps the
\* cached rate may grow one cacheDuration older
NextReport ==
    \/ Expire
    \/ CallUpdate(1)
    \/ UpdateSteps(1)
    \/ UpdateReply(1)

SpecReport ==
    Init /\ [][NextReport]_vars

\* the same, and a call of getMarketUpdate that can take a step takes one:
\* every upstream call returns, with an answer or with an error
SpecReportFair ==
    Init /\ [][NextReport]_vars /\ WF_vars(UpdateSteps(1))

\* the steps of the /start handler
StartSteps(p) ==
    \/ \E ok \in BOOLEAN : SuUpsert(p, ok)
    \/ \E ok \in BOOLEAN : SuLoad(p, ok)
    \/ \E ok \in BOOLEAN : SuAppend(p, ok)
    \/ StartReply(p)

\* one goroutine registering ids and reading the registry, one call at a time
NextRegistry ==
    \/ \E ok \in BOOLEAN : initDatabase(ok)
    \/ \E id \in Ids : CallStart(1, id)
    \/ StartSteps(1)
    \/ \E ok \in BOOLEAN : CallAll(1, ok)
    \/ AllReturn(1)

SpecRegistry ==
    Init /\ [][NextRegistry]_vars

\* the same while time passes between the calls
NextReRegister ==
    \/ Tick
    \/ \E ok \in BOOLEAN : initDatabase(ok)
    \/ \E id \in Ids : CallStart(1, id)
    \/ StartSteps(1)

SpecReRegister ==
    Init /\ [][NextReRegister]_vars

\* the /start handlers of all goroutines, interleaved
NextConcurrentStart ==
    \/ \E ok \in BOOLEAN : initDatabase(ok)
    \/ \E p \in Procs :
           \/ \E id \in Ids : CallStart(p, id)
           \/ StartSteps(p)
           \/ \E ok \in BOOLEAN : CallAll(p, ok)
           \/ AllReturn(p)

SpecConcurrentStart ==
    Init /\ [][NextConcurrentStart]_vars

\* getMarketUpdate inside a broadcast, with a few answers of each upstream
BroadcastUpdateSteps(p) ==
    \/ \E resp \in {TransportError, Quote("1")} : MuGold(p, resp)
    \/ MuEur(p, Quote("1"))
    \/ MuBtc(p, Quote("1"))
    \/ GetCheck(p)
    \/ \E resp \in {TransportError, Quote("2")} : GetFetch(p, resp)
    \/ GetStoreValue(p)
    \/ GetStoreTime(p)
    \/ MuAnchor(p)
    \/ \E feedLen \in {-1, 1} : MuNews(p, feedLen)
    \/ \E tr \in {"error", "ok"} : MuTranslate(p, tr)

\* the steps of a broadcast
BroadcastSteps(p) ==
    \/ \E ok \in BOOLEAN : BcLoad(p, ok)
    \/ BroadcastUpdateSteps(p)
    \/ \E id \in Ids, ok \in BOOLEAN : BcSend(p, id, ok)
    \/ BcEnd(p)
    \/ BcReturn(p)

\* one goroutine that registers subscribers and broadcasts, one call at a time
NextBroadcast ==
    \/ \E ok \in BOOLEAN : initDatabase(ok)
    \/ \E id \in Ids : CallStart(1, id)
    \/ StartSteps(1)
    \/ \E trigger \in {"request", "minute", "daily"} : CallBroadcast(1, trigger)
    \/ BroadcastSteps(1)

SpecBroadcast ==
    Init /\ [][NextBroadcast]_vars

\* the same while an upstream server may stop answering; a broadcast that can
\* take a step takes one
NextCycle ==
    \/ NextBroadcast
    \/ Hang(1)

SpecCycleFair ==
    Init /\ [][NextCycle]_vars /\ WF_vars(BroadcastSteps(1))

\* the Lambda function serving one request after the other
NextHandler ==
    \/ \E body \in Bodies, chat \in Ids : HandlerCall(1, body, chat)
    \/ \E dbOk, botOk \in BOOLEAN : HandlerInit(1, dbOk, botOk)
    \/ \E ok \in BOOLEAN : HandlerRoute(1, ok)
    \/ \E ok \in BOOLEAN : SuUpsert(1, ok)
    \/ StartReply(1)
    \/ BroadcastSteps(1)
    \/ UpdateReply(1)
    \/ HandlerReturn(1)
    \/ HandlerCrash(1)

SpecHandler ==
    Init /\ [][NextHandler]_vars

\* getMarketUpdate inside a broadcast while every upstream answers and the news
\* feed cannot be fetched
QuietUpdateSteps(p) ==
    \/ MuGold(p, Quote("1"))
    \/ MuEur(p, Quote("1"))
    \/ MuBtc(p, Quote("1"))
    \/ GetCheck(p)
    \/ GetFetch(p, Quote("2"))
    \/ GetStoreValue(p)
    \/ GetStoreTime(p)
    \/ MuAnchor(p)
    \/ MuNews(p, -1)

\* everything the bot does, one operation at a time, while every upstream
\* answers: the requests of the Lambda function, the handlers of the long
\* poller, the cron jobs
NextBot ==
    \/ Expire
    \/ \E body \in Bodies, chat \in Ids : HandlerCall(1, body, chat)
    \/ \E dbOk, botOk \in BOOLEAN : HandlerInit(1, dbOk, botOk)
    \/ \E ok \in BOOLEAN : HandlerRoute(1, ok)
    \/ HandlerReturn(1)
    \/ HandlerCrash(1)
    \/ \E id \in Ids : CallStart(1, id)
    \/ StartSteps(1)
    \/ CallUpdate(1)
    \/ QuietUpdateSteps(1)
    \/ UpdateReply(1)
    \/ \E trigger \in {"minute", "daily"} : CronFire(1, trigger)
    \/ \E ok \in BOOLEAN : BcLoad(1, ok)
    \/ \E id \in Ids, ok \in BOOLEAN : BcSend(1, id, ok)
    \/ BcEnd(1)
    \/ BcReturn(1)

SpecBot ==
    Init /\ [][NextBot]_vars

\* goroutine 1 broadcasts while goroutine 2 serves /start
NextSnapshot ==
    \/ \E ok \in BOOLEAN : initDatabase(ok)
    \/ \E trigger \in {"request", "minute", "daily"} : CallBroadcast(1, trigger)
    \/ \E ok \in BOOLEAN : BcLoad(1, ok)
    \/ QuietUpdateSteps(1)
    \/ \E id \in Ids, ok \in BOOLEAN : BcSend(1, id, ok)
    \/ BcEnd(1)
    \/ BcReturn(1)
    \/ \E id \in Ids : CallStart(2, id)
    \/ StartSteps(2)

SpecSnapshot ==
    Init /\ [][NextSnapshot]_vars

\* part_000: the two cron jobs, each run by the scheduler whenever its time
\* has come, beside a /start now and then
NextCron ==
    \/ CronFire(1, "minute")
    \/ CronFire(2, "daily")
    \/ CallStart(1, 1)
    \/ StartSteps(1)
    \/ \E p \in {1, 2} :
           \/ \E ok \in BOOLEAN : BcLoad(p, ok)
           \/ QuietUpdateSteps(p)
           \/ \E id \in Ids, ok \in BOOLEAN : BcSend(p, id, ok)
           \/ BcEnd(p)
           \/ BcReturn(p)

SpecCron ==
    Init /\ [][NextCron]_vars

\* getMarketUpdate while the quotes answer, the USD/VND fetch answers or fails
\* and the news feed cannot be fetched
RateUpdateSteps(p) ==
    \/ MuGold(p, Quote("1"))
    \/ MuEur(p, Quote("1"))
    \/ MuBtc(p, Quote("1"))
    \/ GetCheck(p)
    \/ \E resp \in {TransportError, Quote("1"), Quote("2")} : GetFetch(p, resp)
    \/ GetStoreValue(p)
    \/ GetStoreTime(p)
    \/ MuAnchor(p)
    \/ MuNews(p, -1)

\* the /update handlers of all goroutines, interleaved (the long poller of the
\* local mode runs every handler in a goroutine of its own)
NextConcurrentUpdate ==
    \/ Expire
    \/ \E p \in Procs :
           \/ CallUpdate(p)
           \/ RateUpdateSteps(p)
           \/ UpdateReply(p)

SpecConcurrentUpdate ==
    Init /\ [][NextConcurrentUpdate]_vars

\* one goroutine serving /update while the quotes answer and the news feed
\* has any length, up to more items than the cap
NextNews ==
    \/ CallUpdate(1)
    \/ MuGold(1, Quote("1"))
    \/ MuEur(1, Quote("1"))
    \/ MuBtc(1, Quote("1"))
    \/ GetCheck(1)
    \/ GetFetch(1, Quote("2"))
    \/ GetStoreValue(1)
    \/ GetStoreTime(1)
    \/ MuAnchor(1)
    \/ \E feedLen \in -1..MaxNewsLen : MuNews(1, feedLen)
    \/ \E tr \in {"error", "ok"} : MuTranslate(1, tr)
    \/ UpdateReply(1)

SpecNews ==
    Init /\ [][NextNews]_vars

-----------------------------------------------------------------------------
(* The rate cache: C1 - C4, over the completed calls in getLog *)

\* the cache state a call saw held a value > 0 obtained less than ttl ago
FreshAt(value, last, t) ==
    value > 0 /\ t - last < cacheDuration

\* C1: a get made while a value > 0 is cached and now - obtainedAt < ttl returns
\* exactly that value, without error and without an upstream fetch; a get made
\* in any other state fetches before it returns.
C1_CacheHit ==
    \A i \in 1..Len(getLog) :
        LET e == getLog[i]
        IN  IF FreshAt(e.preValue, e.preLast, e.t)
            THEN e.ret = e.preValue /\ ~e.err /\ e.fetches = 0
            ELSE e.fetches >= 1

\* C1 witness: one call was served from the cache and another one found a
\* value > 0 that had expired and went upstream.
C1_Witness ==
    /\ Len(getLog) = 2
    /\ FreshAt(getLog[1].preValue, getLog[1].preLast, getLog[1].t)
    /\ getLog[1].fetches = 0
    /\ getLog[2].preValue > 0
    /\ getLog[2].t - getLog[2].preLast >= cacheDuration
    /\ getLog[2].fetches = 1

\* two consecutive calls a, b less than ttl apart
SameWindow(a, b) ==
    b.t - a.t < cacheDuration

\* the value the cache held after a was fresh then and has expired by b
ExpiryBetween(a, b) ==
    /\ a.postValue > 0
    /\ a.t - a.postLast < cacheDuration
    /\ b.t - a.postLast >= cacheDuration

\* C2 as stated: whatever the cache held and whatever the provider answers, two
\* calls within the same TTL window with no expiry between them fetch at most
\* once in total.
C2_AtMostOneFetchAnyOutcome ==
    Len(getLog) = 2 =>
        LET a == getLog[1]
            b == getLog[2]
        IN  (SameWindow(a, b) /\ ~ExpiryBetween(a, b)) => a.fetches + b.fetches <= 1

\* C2 amended: two calls within the same TTL window with no expiry between them
\* fetch at most once in total when the first one is served from the cache or
\* its fetch returns a price > 0.
C2_AtMostOneFetchAfterGoodGet ==
    Len(getLog) = 2 =>
        LET a == getLog[1]
            b == getLog[2]
        IN  (/\ SameWindow(a, b)
             /\ ~ExpiryBetween(a, b)
             /\ (a.fetches = 0 \/ a.good)) => a.fetches + b.fetches <= 1

\* C2 witness: the first call fetched a price > 0 and the second one, later in
\* the same window, was served from the cache.
C2_Witness ==
    /\ Len(getLog) = 2
    /\ getLog[1].fetches = 1
    /\ getLog[1].good
    /\ getLog[2].t > getLog[1].t
    /\ SameWindow(getLog[1], getLog[2])
    /\ getLog[2].fetches = 0

\* C3: ttl is 6 hours; a get made 6 hours or more after obtainedAt, or on a
\* cache that was never filled, performs exactly one upstream fetch; a get one
\* hour after a successful fetch performs none.
C3_RefreshOnExpiry ==
    /\ cacheDuration = 6
    /\ \A i \in 1..Len(getLog) :
           LET e == getLog[i]
           IN  (e.preLast = ZeroTime \/ e.t - e.preLast >= 6) => e.fetches = 1
    /\ Len(getLog) = 2 =>
           LET a == getLog[1]
               b == getLog[2]
           IN  (a.fetches = 1 /\ a.good /\ a.postLast = a.t /\ b.t = a.t + 1)
                   => b.fetches = 0

\* C3 witness: the cache was filled at t0, a get at t0+1h did not fetch and the
\* get at t0+7h fetched again.
C3_Witness ==
    /\ Len(getLog) = 2
    /\ getLog[1].preValue > 0
    /\ getLog[1].t = getLog[1].preLast + 1
    /\ getLog[1].fetches = 0
    /\ getLog[2].preLast = getLog[1].preLast
    /\ getLog[2].t = getLog[2].preLast + 7
    /\ getLog[2].fetches = 1

\* C4: when the fetch of a get fails (transport error, provider message, rate
\* limit, unparsable or non-positive price) the cached value and its timestamp
\* are what they were before the call, and the call returns an error.
C4_FailedRefreshLeavesCache ==
    \A i \in 1..Len(getLog) :
        LET e == getLog[i]
        IN  (e.fetches >= 1 /\ ~e.good) =>
                /\ e.postValue = e.preValue
                /\ e.postLast = e.preLast
                /\ e.err

-----------------------------------------------------------------------------
(* The report: C5, C6, over the report a handler has just been handed *)

\* goroutine p holds the report its getMarketUpdate call returned
HoldsReport(p) ==
    pc[p] \in {"up_reply", "bc_send"}

\* C5: the exchange rate of a report was obtained from a successful upstream
\* fetch (it is a cached or freshly fetched price > 0), never a default such as
\* 25000 or 0 standing in for a failed refresh.
C5_NoMagicDefaultRate ==
    \A p \in Procs :
        (HoldsReport(p) /\ loc[p].msg.available) => loc[p].msg.usdToVnd \in fetchedRates

\* C6: when the XAU/USD quote is missing or <= 0 the report is the unavailable
\* one, and no news was fetched, nothing was translated and nothing derived;
\* a normal report has an anchor price > 0.
C6_DegradedReport ==
    \A p \in Procs :
        HoldsReport(p) =>
            LET r == loc[p].msg
            IN  /\ AnchorAbsentOrNonPositive(r.anchor) =>
                       /\ ~r.available
                       /\ r.newsFetches = 0
                       /\ r.translations = 0
                       /\ r.derived = <<>>
                /\ r.available => r.anchor > 0

-----------------------------------------------------------------------------
(* The registry: C7, C8 *)

\* the number of entries the store holds for id
Entries(id) ==
    IF build = "mongo"
    THEN Cardinality({x \in docs : x.chat_id = id})
    ELSE Cardinality({i \in DOMAIN userFile : ParseInt(userFile[i]) = id})

\* no saveUser call is under way
NoSaveInFlight ==
    \A p \in Procs : pc[p] \notin {"su_upsert", "su_load", "su_append"}

\* C7: after any sequence of saveUser calls, with repeats and for every id
\* including 0, loadUsers returns exactly the set of the ids registered (here:
\* while every call to the store has succeeded).
C7_IdempotentRegistration ==
    (pc[1] = "all_done" /\ ~storeFailed) => loc[1].users = registered

\* C8: whatever the interleaving of concurrent saveUser calls, the store holds
\* one entry per registered id the registry can enumerate, never two (here:
\* while every call to the store has succeeded; id 0 is C7's case and left out).
C8_ConcurrentRegistration ==
    ~storeFailed =>
        /\ \A id \in Ids \ {0} : Entries(id) <= 1
        /\ NoSaveInFlight => \A id \in registered \ {0} : Entries(id) = 1

-----------------------------------------------------------------------------
(* The broadcast loop: C9, C10 *)

\* the recipients goroutine p has called b.Send for in its broadcast
Attempted(p) ==
    {loc[p].attempts[i].id : i \in DOMAIN loc[p].attempts}

\* C9: a broadcast attempts the send for every recipient loadUsers gave it,
\* whichever sends fail: a failed send takes no recipient out of the loop, and
\* the broadcast ends normally with all of them attempted.
C9_FanOutIsolation ==
    \A p \in Procs :
        /\ pc[p] = "bc_send" => Attempted(p) \cup loc[p].remaining = loc[p].users
        /\ pc[p] = "bc_done" => Attempted(p) = loc[p].users

\* C9 witness: a broadcast over three recipients has ended, its first send
\* failed and the other recipients were attempted all the same.
C9_Witness ==
    \E p \in Procs :
        /\ pc[p] = "bc_done"
        /\ Cardinality(loc[p].users) = 3
        /\ ~loc[p].attempts[1].ok
        /\ Len(loc[p].attempts) = 3

\* C10: within one broadcast no recipient is sent to twice, whether the send
\* succeeds or fails.
C10_AtMostOncePerBroadcast ==
    \A p \in Procs :
        \A i, j \in DOMAIN loc[p].attempts :
            i /= j => loc[p].attempts[i].id /= loc[p].attempts[j].id

\* C10 witness: a broadcast has ended in which a send failed, and a recipient
\* whose id the store lists twice was sent to once.
C10_Witness ==
    \E p \in Procs :
        /\ pc[p] = "bc_done"
        /\ \E i \in DOMAIN loc[p].attempts :
               /\ ~loc[p].attempts[i].ok
               /\ Entries(loc[p].attempts[i].id) = 2
        /\ Len(loc[p].attempts) = Cardinality(loc[p].users)
        /\ Len(loc[p].attempts) >= 2

-----------------------------------------------------------------------------
(* The snapshot a broadcast iterates over: C11 *)

\* the recipients the loop of goroutine p has visited or has still to visit
IterSet(p) ==
    Attempted(p) \cup loc[p].remaining

\* C11: the recipients of a broadcast are what loadUsers returned at the one
\* moment the broadcast called it (the content of the store then, while no call
\* to the store has failed), and no step of anyone, a concurrent saveUser
\* included, changes that set or the set the loop ranges over.
C11_SnapshotRead ==
    [][/\ (pc[1] = "bc_load" /\ pc'[1] /= "bc_load" /\ ~storeFailed')
            => /\ loc'[1].users = loadUsers(TRUE)
               /\ loc'[1].remaining = loadUsers(TRUE)
       /\ (loc[1].op = "broadcast" /\ pc[1] /= "bc_load" /\ loc'[1].op = "broadcast")
            => /\ loc'[1].users = loc[1].users
               /\ Attempted(1)' \cup loc'[1].remaining = loc[1].users]_vars

\* C11 witness: in the middle of a fan-out (one recipient served, one to go) a
\* /start of another goroutine has put a new id in the store; the loop still
\* ranges over the snapshot.
C11_Witness ==
    /\ pc[1] = "bc_send"
    /\ loc[1].attempts /= <<>>
    /\ loc[1].remaining /= {}
    /\ ~storeFailed
    /\ loadUsers(TRUE) /= loc[1].users
    /\ IterSet(1) = loc[1].users

-----------------------------------------------------------------------------
(* What a broadcast reports of its sends: C12 *)

\* C12: a broadcast that has ended has kept one result per recipient, each the
\* outcome b.Send had for that recipient, so that the successes and the
\* failures it can count add up to the number of recipients.
C12_DispatchResults ==
    \A p \in Procs :
        pc[p] = "bc_done" =>
            /\ Len(loc[p].logged) = Cardinality(loc[p].users)
            /\ \A i \in DOMAIN loc[p].logged : loc[p].logged[i] = loc[p].attempts[i]

-----------------------------------------------------------------------------
(* The rate cache under concurrent callers: C13, C14 *)

\* goroutine p has found the cache empty or expired and its call of the quote
\* provider has not returned yet
FetchInFlight(p) ==
    pc[p] = "get_fetch"

\* C13: of the goroutines that found the same empty or expired cache, at most
\* one has an upstream USD/VND fetch in flight at any moment.
C13_SingleFlight ==
    \A p, q \in Procs :
        (/\ FetchInFlight(p)
         /\ FetchInFlight(q)
         /\ loc[p].preValue = loc[q].preValue
         /\ loc[p].preLast = loc[q].preLast) => p = q

\* the cache holds the value goroutine q has just written, a value other than
\* the one it replaced, beside the timestamp that was there before
HalfWritten(q) ==
    /\ pc[q] = "get_stamp"
    /\ cachedUsdVnd = loc[q].rate
    /\ loc[q].rate /= loc[q].overwritten
    /\ lastCacheUpdate = loc[q].stampSeen

\* C14: the cached value and its timestamp change as one step: no goroutine
\* about to read the cache finds a new value beside the timestamp of the value
\* it replaced.
C14_AtomicCacheUpdate ==
    \A p, q \in Procs :
        (p /= q /\ pc[p] = "get_check") => ~HalfWritten(q)

-----------------------------------------------------------------------------
(* A failed write of the registry: C15 *)

\* C15: the /start handler is about to send the welcome message only when
\* saveUser has left the id in the store: a write that failed, or a store that
\* is not there, is made known to the handler, which then does not tell the
\* user the registration succeeded.
C15_WriteFailureSurfaced ==
    \A p \in Procs :
        pc[p] = "st_reply" => Entries(loc[p].id) >= 1

-----------------------------------------------------------------------------
(* The headlines of a report: C16 *)

\* C16: every headline of a report is either its translation or, when the
\* translation call failed or answered with an HTML page, the original title;
\* the payload of a wrong answer is never put in the report, and the report is
\* a normal one all the same.
C16_TranslationFallback ==
    \A p \in Procs :
        HoldsReport(p) =>
            \A i \in DOMAIN loc[p].msg.headlines :
                /\ loc[p].msg.headlines[i].text \in {"original", "translated"}
                /\ loc[p].msg.available

-----------------------------------------------------------------------------
(* The news of a report: C17 *)

\* the smaller of two numbers
Smaller(a, b) ==
    IF a < b THEN a ELSE b

\* C17: a normal report made from a feed of L items holds the first
\* min(N, L) of them, N being 8 (main.go) or 7 (part_000), in the order of the
\* feed and each once; when the feed could not be fetched it holds none.
C17_NewsCapAndOrder ==
    \A p \in Procs :
        (HoldsReport(p) /\ loc[p].msg.available) =>
            LET r == loc[p].msg
                N == IF build = "mongo" THEN NewsCapMongo ELSE NewsCapFile
                n == IF r.feedLen < 0 THEN 0 ELSE Smaller(N, r.feedLen)
            IN  /\ Len(r.headlines) = n
                /\ \A i \in 1..n : r.headlines[i].item = i

\* C17 witness: a feed longer than the cap gave a normal report with exactly
\* the first N items.
C17_Witness ==
    /\ pc[1] = "up_reply"
    /\ loc[1].msg.available
    /\ loc[1].msg.feedLen > NewsCapMongo
    /\ Len(loc[1].msg.headlines) = NewsCap(build)
    /\ loc[1].msg.headlines[NewsCap(build)].item = NewsCap(build)

-----------------------------------------------------------------------------
(* getMarketUpdate always returns: C18 *)

\* C18: whatever the quote fetches, the rate cache, the news fetch and the
\* translations answer, each succeeding or failing on its own, a call of
\* getMarketUpdate comes back to the handler with a report, the normal or the
\* unavailable one.
C18_AggregatorTotality ==
    (pc[1] = "mu_gold") ~> (pc[1] = "up_reply" /\ loc[1].msg.available \in BOOLEAN)

\* C18 witness: a normal report has come back although the EUR/USD and BTC/USD
\* quotes, the USD/VND refresh and a translation failed.
C18_Witness ==
    /\ pc[1] = "up_reply"
    /\ loc[1].msg.available
    /\ loc[1].msg.eur = 0
    /\ loc[1].msg.btc = 0
    /\ loc[1].msg.usdToVnd \notin fetchedRates
    /\ \E i \in DOMAIN loc[1].msg.headlines : loc[1].msg.headlines[i].text = "original"

-----------------------------------------------------------------------------
(* What the rate cache may hold: C19 *)

\* C19: the cache holds no value (0, never stamped) or a value > 0: a fetched
\* USD/VND price that is zero, negative or unparsable is neither stored nor
\* does it move lastCacheUpdate.
C19_NonPositiveIsAbsent ==
    /\ cachedUsdVnd >= 0
    /\ cachedUsdVnd = 0 => lastCacheUpdate = ZeroTime

-----------------------------------------------------------------------------
(* Calls with a deadline: C20 *)

\* C20: every external call of a cycle has a timeout outcome, so a broadcast
\* that has started comes to its end even when an upstream server never
\* answers.
C20_CycleCompletes ==
    (pc[1] = "bc_load") ~> (pc[1] = "bc_done")

-----------------------------------------------------------------------------
(* Registering an id again: C21 *)

\* what the store holds of its recipients: the documents of the collection,
\* the ids of the lines of users.txt (a line carries nothing but the id)
Recipients ==
    IF build = "mongo" THEN docs
    ELSE {[chat_id |-> ParseInt(userFile[i])] : i \in DOMAIN userFile}

\* the entries of the ids other than id, with their multiplicity
OtherEntries(id) ==
    IF build = "mongo" THEN <<{x \in docs : x.chat_id /= id}>>
    ELSE SelectSeq(userFile, LAMBDA line : ParseInt(line) /= id)

\* C21: a saveUser for an id the store already holds, when its call to the
\* store succeeds, leaves one recipient with that id whose registeredAt is the
\* time of this call, adds no entry and leaves the entries of all other ids as
\* they were.
C21_ReRegistration ==
    [][(/\ pc[1] \in {"su_upsert", "su_append"}
        /\ pc'[1] = "st_reply"
        /\ Entries(loc[1].id) >= 1
        /\ ~storeFailed')
           => /\ [chat_id |-> loc[1].id, updated_at |-> now] \in Recipients'
              /\ Entries(loc[1].id)' = Entries(loc[1].id)
              /\ OtherEntries(loc[1].id)' = OtherEntries(loc[1].id)]_vars

-----------------------------------------------------------------------------
(* The registry only grows: C22 *)

\* C22: whatever registrations, reports, broadcasts and sends came before,
\* the set a broadcast got from loadUsers holds every id the store holds, that
\* is every id a saveUser has stored.
C22_GrowOnly ==
    (loc[1].op = "broadcast" /\ pc[1] /= "bc_load") =>
        \A id \in Ids : Entries(id) >= 1 => id \in loc[1].users

-----------------------------------------------------------------------------
(* Handler: C23, C24, C25 *)

\* C23: a request with an empty body runs one cycle: one report is produced
\* and one send is made to every id loadUsers returned; a request with a body
\* never sends to the registry, it writes only to the chat the update came
\* from.
C23_TriggerRouting ==
    \A p \in Procs :
        /\ (loc[p].req = "empty" /\ pc[p] = "bc_done") =>
               /\ loc[p].produced = 1
               /\ Attempted(p) = loc[p].users
               /\ Len(loc[p].attempts) = Cardinality(loc[p].users)
        /\ loc[p].req \notin {"", "empty"} =>
               /\ loc[p].attempts = <<>>
               /\ loc[p].users = {}
               /\ loc[p].sent \subseteq {loc[p].chat}
               /\ loc[p].produced <= 1

\* C23 witness: /update from chat 1 has been answered in chat 1 while the
\* registry holds other subscribers, none of whom got a message.
C23_Witness ==
    /\ pc[1] = "h_done"
    /\ loc[1].req = "update"
    /\ loc[1].chat = 1
    /\ loc[1].sent = {1}
    /\ loc[1].produced = 1
    /\ {0, 2} \subseteq {x.chat_id : x \in docs}

\* C24: when Handler is about to answer a broadcast trigger, and afterwards,
\* no send is under way or still to be made: every recipient's send has
\* returned, with success or with an error.
C24_SynchronousBroadcast ==
    \A p \in Procs :
        /\ (loc[p].req = "empty" /\ ResponseStatus(p) = 200) =>
               /\ loc[p].pending = {}
               /\ loc[p].remaining = {}
               /\ {loc[p].attempts[i].id : i \in DOMAIN loc[p].attempts} = loc[p].users
               /\ \A i \in DOMAIN loc[p].attempts : loc[p].attempts[i].ok \in BOOLEAN
        /\ pc[p] = "idle" => loc[p].pending = {}

\* C24 witness: Handler is about to answer "Broadcast complete" after three
\* sends, of which one failed.
C24_Witness ==
    /\ loc[1].req = "empty"
    /\ ResponseStatus(1) = 200
    /\ Len(loc[1].attempts) = 3
    /\ \E i \in 1..3 : ~loc[1].attempts[i].ok
    /\ \E i \in 1..3 : loc[1].attempts[i].ok

\* C25: once the bot client is there, every invocation of Handler ends with
\* the status 200, whatever the body and whatever the sends, fetches and
\* registry calls did; for a body that is not JSON it does nothing else.
C25_AlwaysAcknowledges ==
    \A p \in Procs :
        /\ pc[p] /= "h_panic"
        /\ (pc[p] = "h_done" /\ loc[p].status /= 500) => loc[p].status = 200
        /\ (pc[p] = "h_done" /\ loc[p].req = "malformed" /\ loc[p].status /= 500) =>
               /\ loc[p].op = "idle"
               /\ loc[p].sent = {}
               /\ loc[p].produced = 0

-----------------------------------------------------------------------------
(* The cron jobs: C26 *)

\* C26: at no time are two timer-triggered broadcast cycles under way: a job
\* has returned before the scheduler starts the next one, the job of every
\* minute and the job of 08:00 included.
C26_NoOverlappingCycles ==
    Cardinality({p \in Procs : loc[p].op = "broadcast"}) <= 1

-----------------------------------------------------------------------------
(* Who writes the registry: C27 *)

\* C27: a step that changes the store of the registry is a step of saveUser
\* in a /start: reports, /update, callbacks, other messages and broadcasts,
\* with sends that fail, leave the store exactly as it was.
C27_OnlyStartWrites ==
    [][(docs' /= docs \/ userFile' /= userFile)
           => \E p \in Procs : /\ loc[p].op = "start"
                                /\ pc[p] \in {"su_upsert", "su_append"}]_vars

\* C27 witness: a broadcast whose send failed has ended, hours after the one
\* /start, and the store holds what that /start wrote.
C27_Witness ==
    /\ pc[1] = "bc_done"
    /\ now = cacheDuration
    /\ loc[1].attempts = <<[id |-> 1, ok |-> FALSE]>>
    /\ Recipients \in {{[chat_id |-> 1, updated_at |-> 0]}, {[chat_id |-> 1]}}

-----------------------------------------------------------------------------
(* What moves the rate cache: C28 *)

\* C28: a step that changes cachedUsdVnd or lastCacheUpdate is a store of a
\* get whose upstream fetch returned a price > 0: a get served from the cache
\* changes neither, so hits do not move the expiry, and a fetch that did not
\* succeed changes neither.
C28_OnlySuccessfulFetchWrites ==
    [][(cachedUsdVnd' /= cachedUsdVnd \/ lastCacheUpdate' /= lastCacheUpdate)
           => \E p \in Procs : /\ pc[p] \in {"get_store", "get_stamp"}
                                /\ loc[p].good]_vars

-----------------------------------------------------------------------------
(* The numbers of a normal report: C29 *)

\* C29: in a normal report the gold, EUR/USD and BTC/USD prices are each > 0,
\* as a fetch returned them, and the exchange rate is a fetched price > 0: a
\* quote call that failed or answered zero shows as no price of 0.
C29_NoPlaceholderNumbers ==
    \A p \in Procs :
        (HoldsReport(p) /\ loc[p].msg.available) =>
            /\ loc[p].msg.gold > 0
            /\ loc[p].msg.eur > 0
            /\ loc[p].msg.btc > 0
            /\ loc[p].msg.usdToVnd > 0
            /\ loc[p].msg.usdToVnd \in fetchedRates

====
